---- MODULE Spec2Model ----
\* Model of the Challenge component (src/src/components/challenge.tsx): the
\* domain cart, its add / remove / clear / prune / keep-best handlers and
\* the continuation of addDomain after its availability check.
\*
\* Strings are sequences of one-character strings, so that trim, toLowerCase,
\* the suffix regex, includes('https://'), split('.').pop() and .length are
\* computed as the code computes them.
EXTENDS Integers, Sequences, FiniteSets, Bags, TLC

VARIABLES domainInput, domains, error, numDomainsRequired, pending, checks, mounted, last

vars == <<domainInput, domains, error, numDomainsRequired, pending, checks, mounted, last>>

\* ---------------------------------------------------------------- bounds
\* availability checks issued in one session
MaxChecks == 2
\* largest numDomainsRequired prop the component is constructed with
MaxRequired == 2

\* ------------------------------------------------------- string literals
EmptyStr == <<>>
ComSuffix == <<".", "c", "o", "m">>
XyzSuffix == <<".", "x", "y", "z">>
AppSuffix == <<".", "a", "p", "p">>
HttpsPrefix == <<"h", "t", "t", "p", "s", ":", "/", "/">>

\* texts the user types into the input field
RawACom == <<"a", ".", "c", "o", "m">>
RawBXyz == <<" ", "B", ".", "X", "y", "z", " ">>
RawCcApp == <<"c", "c", ".", "a", "p", "p">>
RawAOrg == <<"a", ".", "o", "r", "g">>
RawHttps == HttpsPrefix \o RawACom

RawInputs == {EmptyStr, RawACom, RawBXyz, RawCcApp, RawAOrg, RawHttps}

\* the values of the error state
NoError == "null"
InvalidFormatMsg == "Invalid domain format. Only .com, .xyz, and .app are allowed."
DuplicateMsg == "Domain already in cart."

\* ------------------------------------------------------ string functions
UpperChars ==
    <<"A", "B", "C", "D", "E", "F", "G", "H", "I", "J", "K", "L", "M",
      "N", "O", "P", "Q", "R", "S", "T", "U", "V", "W", "X", "Y", "Z">>
LowerChars ==
    <<"a", "b", "c", "d", "e", "f", "g", "h", "i", "j", "k", "l", "m",
      "n", "o", "p", "q", "r", "s", "t", "u", "v", "w", "x", "y", "z">>
WhiteSpace == {" ", "\t", "\n", "\r"}

toLowerCaseChar(c) ==
    IF \E i \in 1..26 : UpperChars[i] = c
    THEN LowerChars[CHOOSE i \in 1..26 : UpperChars[i] = c]
    ELSE c

\* String.prototype.toLowerCase
toLowerCase(s) == [i \in 1..Len(s) |-> toLowerCaseChar(s[i])]

\* String.prototype.trim
trim(s) ==
    LET keep == {i \in 1..Len(s) : s[i] \notin WhiteSpace}
    IN  IF keep = {} THEN EmptyStr
        ELSE LET lo == CHOOSE i \in keep : \A j \in keep : i <= j
                 hi == CHOOSE i \in keep : \A j \in keep : j <= i
             IN  SubSeq(s, lo, hi)

\* String.prototype.endsWith, as the anchored regex suffix test
endsWith(s, suf) ==
    /\ Len(s) >= Len(suf)
    /\ SubSeq(s, Len(s) - Len(suf) + 1, Len(s)) = suf

\* String.prototype.includes
includes(s, sub) ==
    \E i \in 1..(Len(s) + 1) :
        /\ i + Len(sub) - 1 <= Len(s)
        /\ SubSeq(s, i, i + Len(sub) - 1) = sub

\* s.split('.').pop() || '' : the text after the last dot (the whole text
\* when there is no dot)
lastSegment(s) ==
    LET dots == {i \in 1..Len(s) : s[i] = "."}
    IN  IF dots = {} THEN s
        ELSE LET d == CHOOSE i \in dots : \A j \in dots : j <= i
             IN  SubSeq(s, d + 1, Len(s))

normalizeTrimOnly(raw) == trim(raw)

\* const domain = domainInput.trim().toLowerCase()
normalize(raw) == toLowerCase(trim(raw))

\* ----------------------------------------------------------- validation
validateDomainSuffixOnly(domain) ==
    LET lowerCaseDomain == toLowerCase(domain)
    IN  \/ endsWith(lowerCaseDomain, ComSuffix)
        \/ endsWith(lowerCaseDomain, XyzSuffix)
        \/ endsWith(lowerCaseDomain, AppSuffix)

\* the isValid expression of validateDomain
validateDomain(domain) ==
    LET lowerCaseDomain == toLowerCase(domain)
    IN  /\ \/ endsWith(lowerCaseDomain, ComSuffix)
           \/ endsWith(lowerCaseDomain, XyzSuffix)
           \/ endsWith(lowerCaseDomain, AppSuffix)
        /\ ~includes(lowerCaseDomain, HttpsPrefix)

inCartOtherName(cart, domain) == \E i \in 1..Len(cart) : cart[i].name # domain

inCartNever(cart, domain) == FALSE

\* domains.some(d => d.name === domain)
inCart(cart, domain) == \E i \in 1..Len(cart) : cart[i].name = domain

appendDomainDropped(cart, domain, isAvailable) == cart

\* [...domains, { name: domain, isAvailable }]
appendDomain(cart, domain, isAvailable) ==
    Append(cart, [name |-> domain, isAvailable |-> isAvailable])

filterFirstOut(cart, domainToRemove) == IF cart = <<>> THEN cart ELSE Tail(cart)

\* domains.filter(d => d.name !== domainToRemove)
filterNotNamed(cart, domainToRemove) ==
    SelectSeq(cart, LAMBDA d : d.name # domainToRemove)

filterUnavailable(cart) == SelectSeq(cart, LAMBDA d : ~d.isAvailable)

\* domains.filter(d => d.isAvailable)
filterAvailable(cart) == SelectSeq(cart, LAMBDA d : d.isAvailable)

\* const tldPriority = (tld) => (tld === '.com' ? 1 : tld === '.app' ? 2 : 3)
tldPriority(tld) ==
    IF tld = ComSuffix THEN 1 ELSE IF tld = AppSuffix THEN 2 ELSE 3

\* the comparator handed to domains.sort: x || y is y when x is 0
compareDomains(a, b) ==
    LET aTld == lastSegment(a.name)
        bTld == lastSegment(b.name)
        byTld == tldPriority(aTld) - tldPriority(bTld)
    IN  IF byTld # 0 THEN byTld ELSE Len(a.name) - Len(b.name)

RECURSIVE insertSortedUnstable(_, _)
insertSortedUnstable(sorted, d) ==
    IF sorted = <<>> THEN <<d>>
    ELSE IF compareDomains(sorted[Len(sorted)], d) >= 0
         THEN Append(insertSortedUnstable(SubSeq(sorted, 1, Len(sorted) - 1), d),
                     sorted[Len(sorted)])
         ELSE Append(sorted, d)

\* one step of a stable sort: d goes behind every entry that does not
\* compare greater than it
RECURSIVE insertSorted(_, _)
insertSorted(sorted, d) ==
    IF sorted = <<>> THEN <<d>>
    ELSE IF compareDomains(sorted[Len(sorted)], d) > 0
         THEN Append(insertSorted(SubSeq(sorted, 1, Len(sorted) - 1), d),
                     sorted[Len(sorted)])
         ELSE Append(sorted, d)

\* Array.prototype.sort with the comparator (stable)
RECURSIVE sortDomains(_)
sortDomains(cart) ==
    IF cart = <<>> THEN <<>>
    ELSE insertSorted(sortDomains(SubSeq(cart, 1, Len(cart) - 1)), cart[Len(cart)])

sliceFrom(cart, n) == SubSeq(cart, (IF n < Len(cart) THEN n ELSE Len(cart)) + 1, Len(cart))

\* Array.prototype.slice(0, n) for n >= 0
sliceFirst(cart, n) == SubSeq(cart, 1, IF n < Len(cart) THEN n ELSE Len(cart))

isPurchaseDisabledBelow(cart, n) == Len(cart) < n

\* const isPurchaseDisabled = domains.length !== numDomainsRequired
isPurchaseDisabled(cart, n) == Len(cart) # n

\* domains.some(domain => !domain.isAvailable)
someUnavailable(cart) == \E i \in 1..Len(cart) : ~cart[i].isAvailable

\* --------------------------------------------------------------- state
\* every name a valid input normalizes to
Names == {normalize(r) : r \in {x \in RawInputs : validateDomain(normalize(x))}}

\* the handler that ran last, and the cart length it found
Op(op, size) == [op |-> op, size |-> size]

\* The addDomain calls awaiting isDomainAvailable are a bag of closures: each
\* holds its domain, the domains array it captured, and whether that array is
\* still the state array (shared) or has been replaced by a setDomains.
RECURSIVE bagSum(_, _)
bagSum(B, S) ==
    IF S = {} THEN 0
    ELSE LET x == CHOOSE y \in S : TRUE IN B[x] + bagSum(B, S \ {x})

\* every setDomains installs a new array: no in-flight addDomain shares the
\* state array any more
unshare(B) ==
    LET off(c) == [c EXCEPT !.shared = FALSE]
    IN  [d \in {off(c) : c \in DOMAIN B} |->
            bagSum(B, {c \in DOMAIN B : off(c) = d})]

\* domains.sort(...) reorders the state array itself, and with it the array
\* of every closure that still shares it
sortShared(B, sortedDomains) ==
    LET to(c) == IF c.shared
                 THEN [c EXCEPT !.domains = sortedDomains, !.shared = FALSE]
                 ELSE c
    IN  [d \in {to(c) : c \in DOMAIN B} |->
            bagSum(B, {c \in DOMAIN B : to(c) = d})]

Init ==
    /\ domainInput = EmptyStr
    /\ domains = <<>>
    /\ error = NoError
    /\ numDomainsRequired \in 0..MaxRequired
    /\ pending = EmptyBag
    /\ checks = 0
    /\ mounted = TRUE
    /\ last = Op("init", 0)

\* onChange of the input field
setDomainInput ==
    \E raw \in RawInputs :
        /\ mounted
        /\ raw # domainInput
        /\ domainInput' = raw
        /\ last' = Op("input", 0)
        /\ UNCHANGED <<domains, error, numDomainsRequired, pending, checks, mounted>>

\* addDomain with a cap at numDomainsRequired
addDomainCapped ==
    LET domain == normalize(domainInput)
    IN  /\ mounted
        /\ last' = Op("add", 0)
        /\ IF ~validateDomain(domain)
           THEN /\ error' = InvalidFormatMsg
                /\ UNCHANGED <<pending, checks>>
           ELSE IF inCart(domains, domain)
           THEN /\ error' = DuplicateMsg
                /\ UNCHANGED <<pending, checks>>
           ELSE IF Len(domains) >= numDomainsRequired
           THEN UNCHANGED <<error, pending, checks>>
           ELSE /\ checks < MaxChecks
                /\ checks' = checks + 1
                /\ error' = NoError
                /\ pending' = pending (+) SetToBag(
                       {[domain |-> domain, domains |-> domains, shared |-> TRUE]})
        /\ UNCHANGED <<domainInput, domains, numDomainsRequired, mounted>>

\* addDomain clearing the input field before its await
addDomainClearsInput ==
    LET domain == normalize(domainInput)
    IN  /\ mounted
        /\ last' = Op("add", 0)
        /\ IF ~validateDomain(domain)
           THEN /\ error' = InvalidFormatMsg
                /\ UNCHANGED <<pending, checks, domainInput>>
           ELSE IF inCart(domains, domain)
           THEN /\ error' = DuplicateMsg
                /\ UNCHANGED <<pending, checks, domainInput>>
           ELSE /\ checks < MaxChecks
                /\ checks' = checks + 1
                /\ error' = NoError
                /\ domainInput' = EmptyStr
                /\ pending' = pending (+) SetToBag(
                       {[domain |-> domain, domains |-> domains, shared |-> TRUE]})
        /\ UNCHANGED <<domains, numDomainsRequired, mounted>>

\* addDomain up to its await (or its early return)
addDomain ==
    LET domain == normalize(domainInput)
    IN  /\ mounted
        /\ last' = Op("add", 0)
        /\ IF ~validateDomain(domain)
           THEN /\ error' = InvalidFormatMsg
                /\ UNCHANGED <<pending, checks>>
           ELSE IF inCart(domains, domain)
           THEN /\ error' = DuplicateMsg
                /\ UNCHANGED <<pending, checks>>
           ELSE /\ checks < MaxChecks
                /\ checks' = checks + 1
                /\ error' = NoError
                /\ pending' = pending (+) SetToBag(
                       {[domain |-> domain, domains |-> domains, shared |-> TRUE]})
        /\ UNCHANGED <<domainInput, domains, numDomainsRequired, mounted>>

\* the continuation applied to the state whether mounted or not
resolveDomainAlways(name) ==
    \E c \in BagToSet(pending), isAvailable \in BOOLEAN :
        /\ c.domain = name
        /\ domains' = appendDomain(c.domains, c.domain, isAvailable)
        /\ domainInput' = EmptyStr
        /\ pending' = unshare(pending (-) SetToBag({c}))
        /\ last' = Op(IF mounted THEN "resolved" ELSE "discarded", Len(domains))
        /\ UNCHANGED <<error, numDomainsRequired, checks, mounted>>

\* addDomain after isDomainAvailable(name) has resolved. On a component
\* that React has unmounted the calls of setDomains and setDomainInput are
\* dropped: the state of the hooks is gone
resolveDomain(name) ==
    \E c \in BagToSet(pending), isAvailable \in BOOLEAN :
        /\ c.domain = name
        /\ IF mounted
           THEN /\ domains' = appendDomain(c.domains, c.domain, isAvailable)
                /\ domainInput' = EmptyStr
                /\ pending' = unshare(pending (-) SetToBag({c}))
                /\ last' = Op("resolved", Len(domains))
           ELSE /\ pending' = pending (-) SetToBag({c})
                /\ last' = Op("discarded", Len(domains))
                /\ UNCHANGED <<domains, domainInput>>
        /\ UNCHANGED <<error, numDomainsRequired, checks, mounted>>

addDomainResolved == \E name \in Names : resolveDomain(name)

\* React unmounts the component
unmount ==
    /\ mounted
    /\ mounted' = FALSE
    /\ last' = Op("unmount", 0)
    /\ UNCHANGED <<domainInput, domains, error, numDomainsRequired, pending, checks>>

\* removeDomain(domainToRemove), the onDeleteDomain callback: DomainCart calls
\* it with the name of an entry it renders
removeDomain ==
    \E domainToRemove \in {domains[i].name : i \in 1..Len(domains)} :
        /\ mounted
        /\ domains' = filterNotNamed(domains, domainToRemove)
        /\ pending' = unshare(pending)
        /\ last' = Op("remove", Len(domains))
        /\ UNCHANGED <<domainInput, error, numDomainsRequired, checks, mounted>>

clearCartKeepsFirst ==
    /\ mounted
    /\ domains' = IF domains = <<>> THEN <<>> ELSE <<domains[1]>>
    /\ pending' = unshare(pending)
    /\ last' = Op("clear", Len(domains))
    /\ UNCHANGED <<domainInput, error, numDomainsRequired, checks, mounted>>

clearCartResetsForm ==
    /\ mounted
    /\ domains' = <<>>
    /\ error' = NoError
    /\ domainInput' = EmptyStr
    /\ pending' = unshare(pending)
    /\ last' = Op("clear", Len(domains))
    /\ UNCHANGED <<numDomainsRequired, checks, mounted>>

\* clearCart: setDomains([])
clearCart ==
    /\ mounted
    /\ domains' = <<>>
    /\ pending' = unshare(pending)
    /\ last' = Op("clear", Len(domains))
    /\ UNCHANGED <<domainInput, error, numDomainsRequired, checks, mounted>>

removeUnavailableDomains ==
    /\ mounted
    /\ domains' = filterAvailable(domains)
    /\ pending' = unshare(pending)
    /\ last' = Op("prune", Len(domains))
    /\ UNCHANGED <<domainInput, error, numDomainsRequired, checks, mounted>>

\* domains.sort sorts the state array in place: an in-flight addDomain that
\* captured this very array sees it sorted; setDomains then installs the
\* slice as a new array
keepBestDomains ==
    LET sortedDomains == sortDomains(domains)
    IN  /\ mounted
        /\ domains' = sliceFirst(sortedDomains, numDomainsRequired)
        /\ pending' = sortShared(pending, sortedDomains)
        /\ last' = Op("keepBest", Len(domains))
        /\ UNCHANGED <<domainInput, error, numDomainsRequired, checks, mounted>>

\* a click on the Purchase button, which is possible only while the button
\* is enabled
handlePurchase ==
    /\ mounted
    /\ ~isPurchaseDisabled(domains, numDomainsRequired)
    /\ last' = Op(IF someUnavailable(domains) THEN "purchaseAlert" ELSE "purchase", 0)
    /\ UNCHANGED <<domainInput, domains, error, numDomainsRequired, pending, checks, mounted>>

Next ==
    \/ setDomainInput
    \/ addDomain
    \/ addDomainResolved
    \/ removeDomain
    \/ clearCart
    \/ removeUnavailableDomains
    \/ keepBestDomains
    \/ handlePurchase
    \/ unmount

Spec == Init /\ [][Next]_vars

\* isDomainAvailable eventually resolves every call made to it; the required
\* count, which no step of an add attempt reads, is the largest one
LiveInit == Init /\ numDomainsRequired = MaxRequired

LiveSpec ==
    /\ LiveInit
    /\ [][Next]_vars
    /\ \A name \in Names : WF_vars(resolveDomain(name))

\* ------------------------------------------------------------ properties
cartNames(cart) == {cart[i].name : i \in 1..Len(cart)}
allAvailable(cart) == \A i \in 1..Len(cart) : cart[i].isAvailable
minOf(a, b) == IF a < b THEN a ELSE b

\* the entries of new are entries of old, in the order they have in old
keepsOrderOf(new, old) ==
    \E f \in [1..Len(new) -> 1..Len(old)] :
        /\ \A i \in 1..Len(new) : old[f[i]] = new[i]
        /\ \A i, j \in 1..Len(new) : i < j => f[i] < f[j]

\* C1: in every reachable state no two cart entries share the same
\* normalized name.
C1_UniqueNames ==
    \A i, j \in 1..Len(domains) :
        i # j => toLowerCase(trim(domains[i].name)) # toLowerCase(trim(domains[j].name))

\* a cart of two entries, set by the resolution of the second check
C1_Witness ==
    /\ last.op = "resolved"
    /\ Len(domains) = 2

\* C2: two addDomain calls for different valid names, neither in the cart,
\* issued before either check resolves: once both have resolved the cart
\* holds both entries, the one that resolved first before the other. Stated
\* on the second resolution: the previous step resolved the first call (its
\* entry is the last of the cart) and the second call is the one in flight.
C2_BothAppended ==
    [][\A c \in BagToSet(pending) :
          ( /\ last.op = "resolved"
            /\ pending = SetToBag({c})
            /\ Len(domains) > 0
            /\ domains[Len(domains)].name # c.domain
            /\ domains[Len(domains)].name \notin cartNames(c.domains)
            /\ last'.op = "resolved" )
          => \E i, j \in 1..Len(domains') :
                /\ i < j
                /\ domains'[i] = domains[Len(domains)]
                /\ domains'[j].name = c.domain]_vars

\* the suffix priority of the specification: .com before .app before .xyz
suffixRank(name) ==
    IF endsWith(name, ComSuffix) THEN 1
    ELSE IF endsWith(name, AppSuffix) THEN 2 ELSE 3

\* C3: after rankAndTruncate the cart is sorted ascending by (suffix
\* priority, name length), .com before .app before .xyz: of two adjacent
\* entries the earlier has the better suffix, or the same suffix and a name
\* no longer than the later one.
C3_SortedBySuffixThenLength ==
    [][last'.op = "keepBest" =>
          \A i \in 1..(Len(domains') - 1) :
              \/ suffixRank(domains'[i].name) < suffixRank(domains'[i + 1].name)
              \/ /\ suffixRank(domains'[i].name) = suffixRank(domains'[i + 1].name)
                 /\ Len(domains'[i].name) <= Len(domains'[i + 1].name)]_vars

\* the input, trimmed and lowercased, lacks the three suffixes or contains
\* https://
invalidFormat(raw) ==
    LET s == toLowerCase(trim(raw))
    IN  \/ ~(endsWith(s, ComSuffix) \/ endsWith(s, XyzSuffix) \/ endsWith(s, AppSuffix))
        \/ includes(s, HttpsPrefix)

\* C4: an add of an input of invalid format is rejected: the cart is
\* unchanged, no availability check is issued and the error is the
\* invalid-format message.
C4_InvalidRejected ==
    [][(last'.op = "add" /\ invalidFormat(domainInput)) =>
          /\ domains' = domains
          /\ pending' = pending
          /\ checks' = checks
          /\ error' = InvalidFormatMsg]_vars

\* an input with a valid suffix that contains https:// was rejected on a
\* cart that is not empty
C4_Witness ==
    /\ last.op = "add"
    /\ domainInput = RawHttps
    /\ error = InvalidFormatMsg
    /\ Len(domains) > 0

\* C5: an add of a valid input whose normalized name is in the cart,
\* whatever the case of the input, is rejected as duplicate: the cart is
\* unchanged, no availability check is issued and the error is the
\* duplicate message.
C5_DuplicateRejected ==
    [][( /\ last'.op = "add"
         /\ ~invalidFormat(domainInput)
         /\ toLowerCase(trim(domainInput)) \in cartNames(domains) ) =>
          /\ domains' = domains
          /\ pending' = pending
          /\ checks' = checks
          /\ error' = DuplicateMsg]_vars

\* the input in upper case and with blanks around it was rejected as a
\* duplicate of the lowercase entry
C5_Witness ==
    /\ last.op = "add"
    /\ domainInput = RawBXyz
    /\ domainInput \notin cartNames(domains)
    /\ error = DuplicateMsg

\* C6: when the availability check of an add resolves, its entry is appended
\* as the last entry of the cart current at that moment, the error is cleared
\* and the input field is cleared, whatever was attempted meanwhile.
C6_AppendedToCurrentCart ==
    [][last'.op = "resolved" =>
          /\ \E c \in BagToSet(pending), isAvailable \in BOOLEAN :
                domains' = Append(domains, [name |-> c.domain, isAvailable |-> isAvailable])
          /\ error' = NoError
          /\ domainInput' = EmptyStr]_vars

\* C7: a purchase goes through (the button is enabled and handlePurchase
\* passes its availability check) exactly when the cart length equals the
\* required count and every entry is available.
C7_PurchaseReadiness ==
    LET ready == Len(domains) = numDomainsRequired /\ allAvailable(domains)
    IN  /\ (~isPurchaseDisabled(domains, numDomainsRequired) /\ ~someUnavailable(domains))
              <=> ready
        /\ last.op = "purchase" => ready
        /\ last.op = "purchaseAlert" => ~ready

\* a purchase of a cart of two entries went through
C7_Witness ==
    /\ last.op = "purchase"
    /\ Len(domains) = 2

C9_PruneKeepsAvailable ==
    [][last'.op = "prune" =>
          /\ allAvailable(domains')
          /\ \A j \in 1..Len(domains) :
                domains[j].isAvailable => \E i \in 1..Len(domains') : domains'[i] = domains[j]
          /\ keepsOrderOf(domains', domains)
          /\ Len(domains') <= Len(domains)]_vars

\* a prune dropped one entry of a cart of two and kept the other
C9_Witness ==
    /\ last.op = "prune"
    /\ last.size = 2
    /\ Len(domains) = 1

\* C10: remove(name) deletes the entry of that name and keeps the others in
\* their order; removing a name that is absent changes nothing, so a second
\* remove(name) leaves the cart as the first one left it.
C10_RemoveIdempotent ==
    [][last'.op = "remove" =>
          /\ \E name \in cartNames(domains) :
                /\ cartNames(domains') = cartNames(domains) \ {name}
                /\ filterNotNamed(domains', name) = domains'
          /\ Len(domains') = Len(domains) - 1
          /\ keepsOrderOf(domains', domains)
          /\ \A name \in Names \ cartNames(domains') :
                filterNotNamed(domains', name) = domains']_vars

\* an entry was removed from a cart of two
C10_Witness ==
    /\ last.op = "remove"
    /\ last.size = 2
    /\ Len(domains) = 1

\* C11: clear leaves the cart empty from every prior state.
C11_ClearEmpties ==
    [][last'.op = "clear" => domains' = <<>>]_vars

\* a cart that was not empty was cleared while an error was active and an
\* add was in flight
C11_Witness ==
    /\ last.op = "clear"
    /\ last.size >= 1
    /\ error # NoError
    /\ pending # EmptyBag

inFlight(name) == \E c \in BagToSet(pending) : c.domain = name

\* C14: an add attempt enters Checking only when its input is valid and not
\* in the cart, leaves Checking only by the resolution of its check, and,
\* the oracle resolving every call, reaches Added (its entry is appended)
\* unless the component is unmounted first.
C14_AddStateMachine ==
    /\ [][BagCardinality(pending') > BagCardinality(pending) =>
             /\ last'.op = "add"
             /\ ~invalidFormat(domainInput)
             /\ toLowerCase(trim(domainInput)) \notin cartNames(domains)]_vars
    /\ [][BagCardinality(pending') < BagCardinality(pending) =>
             last'.op \in {"resolved", "discarded"}]_vars
    /\ \A name \in Names :
          (mounted /\ inFlight(name)) ~>
              \/ ~mounted
              \/ /\ last.op = "resolved"
                 /\ Len(domains) > 0
                 /\ domains[Len(domains)].name = name

\* an attempt has reached Added while another is still in Checking
C14_Witness ==
    /\ last.op = "resolved"
    /\ pending # EmptyBag

C16_NoReappearance ==
    [][last'.op = "resolved" =>
          \A i \in 1..(Len(domains') - 1) :
              \E j \in 1..Len(domains) : domains[j] = domains'[i]]_vars

\* C17: every cart entry's name is lowercase, without blanks around it,
\* ends in .com, .xyz or .app and does not contain https://.
C17_NamesNormalized ==
    \A i \in 1..Len(domains) :
        LET name == domains[i].name
        IN  /\ \A k \in 1..Len(name) : \A u \in 1..26 : name[k] # UpperChars[u]
            /\ Len(name) > 0
            /\ name[1] \notin WhiteSpace
            /\ name[Len(name)] \notin WhiteSpace
            /\ \/ endsWith(name, ComSuffix)
               \/ endsWith(name, XyzSuffix)
               \/ endsWith(name, AppSuffix)
            /\ ~includes(name, HttpsPrefix)

\* the name typed in upper case with blanks around it is in the cart
C17_Witness ==
    /\ <<"b", ".", "x", "y", "z">> \in cartNames(domains)
    /\ Len(domains) = 2

\* C18: the isAvailable of a cart entry does not change for as long as the
\* entry stays in the cart: a name that is in the cart before and after a
\* step has the same isAvailable before and after it.
C18_AvailabilityFixed ==
    [][\A i \in 1..Len(domains) : \A j \in 1..Len(domains') :
          domains[i].name = domains'[j].name =>
              domains[i].isAvailable = domains'[j].isAvailable]_vars

C20_OnlyCartChanges ==
    [][ /\ last'.op \in {"remove", "clear", "prune", "keepBest"} =>
              /\ error' = error
              /\ domainInput' = domainInput
        /\ error' # error => last'.op = "add" ]_vars

\* the cart was cleared and the error of the rejected add before it is
\* still active, the rejected text still in the input field
C20_Witness ==
    /\ last.op = "clear"
    /\ last.size = 2
    /\ error = DuplicateMsg
    /\ domainInput # EmptyStr

====
